---------------------------- MODULE Spec2Model ----------------------------
(***************************************************************************)
(* A model of the yaecs entity storage (src/src/yaecs/storage.py): the     *)
(* three indices of Storage, the heap of _Container objects they refer to, *)
(* and the public operations create, destroy, set, delete, clear and the   *)
(* reads components, signature, get and select; the filters of             *)
(* src/src/yaecs/filter.py and component.py, the views of view.py, and the *)
(* command buffer of command_buffer.py with the queue it keeps.            *)
(*                                                                         *)
(* Python dictionaries are functions whose DOMAIN is the key set; Python   *)
(* lists are sequences; row indices are kept 0-based as in the code, so    *)
(* row i of a list l is l[i + 1].  Containers are objects with identity:   *)
(* they live in the heap `containers` under a container id, and the        *)
(* indices hold ids.                                                       *)
(***************************************************************************)
EXTENDS Integers, Sequences, FiniteSets, TLC

\* ---------------------------------------------------------------- bounds
NumEntities == 2      \* entity ids that calls may name or mint
MaxStale == 1         \* rows left behind by create on a tracked entity_id
MaxVal == 2           \* distinct component instances per component type
MaxComps == 2         \* longest iterable of components passed to a call
MaxRows == 3          \* rows held by all containers together
MaxQueue == 2         \* commands a command buffer holds at a time

Entities == 1..NumEntities
DenseEntities == 1..(NumEntities + 1)
Types == {"A", "B"}
Vals == 1..MaxVal

VARIABLES
    entity_to_container,     \* Storage._entity_to_container  {entity: container id}
    ctype_to_container,      \* Storage._ctype_to_container   {type: set of container ids}
    signature_to_container,  \* Storage._signature_to_container {signature: container id}
    containers,              \* heap: container id -> _Container object
    minted,                  \* ids returned so far by _generate_new_entity_id
    commands,                \* CommandBuffer._commands  [(method, args)]
    inside,                  \* the client is inside a `with buffer:` block
    generator,               \* the sequence a select or a view iteration returned, while consumed
    last                     \* the last call: operation, entity, outcome

vars == <<entity_to_container, ctype_to_container, signature_to_container,
          containers, minted, commands, inside, generator, last>>

\* ------------------------------------------------------- dict primitives
EmptyDict == [x \in {} |-> 0]

Put(d, k, v) == [x \in (DOMAIN d) \cup {k} |-> IF x = k THEN v ELSE d[x]]

Del(d, k) == [x \in (DOMAIN d) \ {k} |-> d[x]]

\* dict.update(other): keys of other overwrite / extend d
DictUpdate(d, other) ==
    [x \in (DOMAIN d) \cup (DOMAIN other) |->
        IF x \in DOMAIN other THEN other[x] ELSE d[x]]

\* list.pop(0): drop the first element
PopFirst(l) == SubSeq(l, 2, Len(l))

\* list.pop(): drop the last element
Pop(l) == SubSeq(l, 1, Len(l) - 1)

\* l[i] = v with a 0-based i
SetAt(l, i, v) == [l EXCEPT ![i + 1] = v]

\* ------------------------------------------------------------ _Container
\* _Container.__init__
NewContainer(signature) ==
    [signature  |-> signature,
     entities   |-> <<>>,
     components |-> [t \in signature |-> <<>>],
     indices    |-> EmptyDict]

\* _Container.add inserting the row at the front of the lists
ContainerAddAtFront(c, entity, component_dict) ==
    [c EXCEPT !.entities = <<entity>> \o c.entities,
              !.components = [t \in DOMAIN c.components |->
                                 IF t \in DOMAIN component_dict
                                 THEN <<component_dict[t]>> \o c.components[t]
                                 ELSE c.components[t]],
              !.indices = Put(c.indices, entity, 0)]

\* _Container.add
ContainerAdd(c, entity, component_dict) ==
    LET ents == Append(c.entities, entity)
        comps == [t \in DOMAIN c.components |->
                    IF t \in DOMAIN component_dict
                    THEN Append(c.components[t], component_dict[t])
                    ELSE c.components[t]]
        index == Len(ents) - 1
    IN [c EXCEPT !.entities = ents,
                 !.components = comps,
                 !.indices = Put(c.indices, entity, index)]

\* _Container._move without the loop over the component lists
ContainerMoveEntityOnly(c, index_to, index_from) ==
    LET ents == SetAt(c.entities, index_to, c.entities[index_from + 1])
        entity_from == ents[index_from + 1]
    IN [c EXCEPT !.entities = ents,
                 !.indices = Put(c.indices, entity_from, index_to)]

\* _Container._move
ContainerMove(c, index_to, index_from) ==
    LET ents == SetAt(c.entities, index_to, c.entities[index_from + 1])
        comps == [t \in DOMAIN c.components |->
                    SetAt(c.components[t], index_to, c.components[t][index_from + 1])]
        entity_from == ents[index_from + 1]
    IN [c EXCEPT !.entities = ents,
                 !.components = comps,
                 !.indices = Put(c.indices, entity_from, index_to)]

\* _Container.remove popping the entity list only and not the component lists
ContainerRemoveEntitiesOnly(c, entity) ==
    LET index == c.indices[entity]
        last_index == Len(c.entities) - 1
        moved == IF index # last_index THEN ContainerMove(c, index, last_index) ELSE c
    IN [moved EXCEPT !.entities = Pop(moved.entities),
                     !.indices = Del(moved.indices, entity)]

\* _Container.remove
ContainerRemove(c, entity) ==
    LET index == c.indices[entity]
        last_index == Len(c.entities) - 1
        moved == IF index # last_index THEN ContainerMove(c, index, last_index) ELSE c
    IN [moved EXCEPT !.entities = Pop(moved.entities),
                     !.components = [t \in DOMAIN moved.components |-> Pop(moved.components[t])],
                     !.indices = Del(moved.indices, entity)]

\* _Container.component_dict
ContainerComponentDict(c, entity) ==
    LET index == c.indices[entity]
    IN [t \in DOMAIN c.components |-> c.components[t][index + 1]]

\* _Container.get_component
ContainerGetComponent(c, entity, component_type) ==
    c.components[component_type][c.indices[entity] + 1]

\* _Container.get_components answering from the last requested type to the first
ContainerGetComponentsReversed(c, entity, component_types) ==
    [i \in 1..Len(component_types) |->
        c.components[component_types[Len(component_types) + 1 - i]][c.indices[entity] + 1]]

\* _Container.get_components: the values in the order of component_types
ContainerGetComponents(c, entity, component_types) ==
    [i \in 1..Len(component_types) |->
        c.components[component_types[i]][c.indices[entity] + 1]]

\* _Container.update writing at the first row instead of the entity's row
ContainerUpdateFirstRow(c, entity, component_dict) ==
    [c EXCEPT !.components =
        [t \in DOMAIN c.components |->
            IF t \in DOMAIN component_dict
            THEN SetAt(c.components[t], 0, component_dict[t])
            ELSE c.components[t]]]

\* _Container.update
ContainerUpdate(c, entity, component_dict) ==
    LET index == c.indices[entity]
    IN [c EXCEPT !.components =
            [t \in DOMAIN c.components |->
                IF t \in DOMAIN component_dict
                THEN SetAt(c.components[t], index, component_dict[t])
                ELSE c.components[t]]]

\* --------------------------------------------------------------- Storage
\* The storage as one value, so that the private helpers compose.
StorageState ==
    [e2c |-> entity_to_container, c2c |-> ctype_to_container,
     s2c |-> signature_to_container, heap |-> containers]

\* Storage.__init__
EmptyStorage ==
    [e2c |-> EmptyDict, c2c |-> EmptyDict, s2c |-> EmptyDict, heap |-> EmptyDict]

\* Container ids some index still refers to (Python keeps exactly these alive).
Referenced(S) ==
    {S.e2c[e] : e \in DOMAIN S.e2c}
        \cup {S.s2c[s] : s \in DOMAIN S.s2c}
        \cup UNION {S.c2c[t] : t \in DOMAIN S.c2c}

\* Objects no index refers to are reclaimed.
Collect(S) == [S EXCEPT !.heap = [c \in (DOMAIN S.heap) \cap Referenced(S) |-> S.heap[c]]]

\* A new object gets an identity no live object has.  Identities are opaque, so
\* the model names an object by its (immutable) signature and a serial number:
\* the least serial no live container of that signature carries.
FreshContainerId(S, signature) ==
    LET used == {c.serial : c \in {d \in DOMAIN S.heap : d.signature = signature}}
    IN [signature |-> signature,
        serial |-> CHOOSE n \in 1..(Cardinality(used) + 1) :
                      n \notin used /\ \A m \in 1..(Cardinality(used) + 1) : m \notin used => n <= m]

\* dict.setdefault(t, set()).add(cid) for every t of the signature
RegisterTypes(c2c, signature, cid) ==
    [t \in (DOMAIN c2c) \cup signature |->
        IF t \in signature
        THEN (IF t \in DOMAIN c2c THEN c2c[t] ELSE {}) \cup {cid}
        ELSE c2c[t]]

\* Storage._add_entity without the lookup in signature_to_container
AddEntityAlwaysNew(S, entity, component_dict) ==
    LET signature == DOMAIN component_dict
        cid == FreshContainerId(S, signature)
        S1 == [S EXCEPT !.heap = Put(S.heap, cid, NewContainer(signature)),
                        !.s2c = Put(S.s2c, signature, cid),
                        !.c2c = RegisterTypes(S.c2c, signature, cid)]
    IN [S1 EXCEPT !.e2c = Put(S1.e2c, entity, cid),
                  !.heap = [S1.heap EXCEPT ![cid] = ContainerAdd(S1.heap[cid], entity, component_dict)]]

\* Storage._add_entity
AddEntity(S, entity, component_dict) ==
    LET signature == DOMAIN component_dict
        isNew == signature \notin DOMAIN S.s2c
        cid == IF isNew THEN FreshContainerId(S, signature) ELSE S.s2c[signature]
        S1 == IF isNew
              THEN [S EXCEPT !.heap = Put(S.heap, cid, NewContainer(signature)),
                             !.s2c = Put(S.s2c, signature, cid),
                             !.c2c = RegisterTypes(S.c2c, signature, cid)]
              ELSE S
    IN [S1 EXCEPT !.e2c = Put(S1.e2c, entity, cid),
                  !.heap = [S1.heap EXCEPT ![cid] = ContainerAdd(S1.heap[cid], entity, component_dict)]]

\* the loop of Storage._remove_entity without the deletion of emptied keys
UnregisterTypesKeepsKeys(c2c, signature, cid) ==
    [t \in DOMAIN c2c |-> IF t \in signature THEN c2c[t] \ {cid} ELSE c2c[t]]

\* the loop of Storage._remove_entity over the emptied container's signature
UnregisterTypes(c2c, signature, cid) ==
    LET removed == [t \in DOMAIN c2c |-> IF t \in signature THEN c2c[t] \ {cid} ELSE c2c[t]]
    IN [t \in {u \in DOMAIN c2c : ~(u \in signature /\ removed[u] = {})} |-> removed[t]]

\* Storage._remove_entity without the `if not container` branch
RemoveEntityKeepsContainer(S, cid, entity) ==
    [S EXCEPT !.e2c = Del(S.e2c, entity),
              !.heap = [S.heap EXCEPT ![cid] = ContainerRemove(S.heap[cid], entity)]]

\* Storage._remove_entity
RemoveEntity(S, cid, entity) ==
    LET c == ContainerRemove(S.heap[cid], entity)
        S1 == [S EXCEPT !.e2c = Del(S.e2c, entity),
                        !.heap = [S.heap EXCEPT ![cid] = c]]
    IN IF Len(c.entities) = 0
       THEN [S1 EXCEPT !.s2c = Del(S1.s2c, c.signature),
                       !.c2c = UnregisterTypes(S1.c2c, c.signature, cid)]
       ELSE S1

\* Storage._update_entity migrating with the new components only
UpdateEntityNoMerge(S, cid, entity, component_dict) ==
    LET signature == S.heap[cid].signature
    IN IF DOMAIN component_dict \subseteq signature
       THEN [S EXCEPT !.heap = [S.heap EXCEPT ![cid] =
                                    ContainerUpdate(S.heap[cid], entity, component_dict)]]
       ELSE AddEntity(RemoveEntity(S, cid, entity), entity, component_dict)

\* Storage._update_entity
UpdateEntity(S, cid, entity, component_dict) ==
    LET signature == S.heap[cid].signature
    IN IF DOMAIN component_dict \subseteq signature
       THEN [S EXCEPT !.heap = [S.heap EXCEPT ![cid] =
                                    ContainerUpdate(S.heap[cid], entity, component_dict)]]
       ELSE LET entity_component_dict ==
                    DictUpdate(ContainerComponentDict(S.heap[cid], entity), component_dict)
            IN AddEntity(RemoveEntity(S, cid, entity), entity, entity_component_dict)

\* ------------------------------------------------------------- arguments
\* A `component` argument: None, one Component, or an iterable of Components.
Component(t, v) == [type |-> t, val |-> v]

\* the component instances calls are made with: MaxVal of type A, one of type B
ComponentInstances ==
    {Component("A", v) : v \in Vals} \cup {Component("B", 1)}

None == [kind |-> "none", items |-> <<>>]

Single(c) == [kind |-> "single", items |-> <<c>>]

Iterable(s) == [kind |-> "iterable", items |-> s]

\* iterables of components, up to MaxComps long
ComponentSeqs == UNION {[1..n -> ComponentInstances] : n \in 0..MaxComps}

\* what a caller may pass as `component`
ComponentArgs ==
    {None} \cup {Single(c) : c \in ComponentInstances} \cup {Iterable(s) : s \in ComponentSeqs}

\* iterables of component types, up to MaxComps long
TypeSeqs == UNION {[1..n -> Types] : n \in 0..MaxComps}

\* what a caller may pass as `component_type`: one type or an iterable
TypeArgs == {Single(t) : t \in Types} \cup {Iterable(s) : s \in TypeSeqs}

\* {type(c): c for c in component}: the last component of a type prevails
RECURSIVE DictOfSeq(_)
DictOfSeq(s) ==
    IF Len(s) = 0 THEN EmptyDict
    ELSE Put(DictOfSeq(Pop(s)), s[Len(s)].type, s[Len(s)].val)

\* the dict of create and set built so that the first component of a type
\* prevails
ComponentDictOfFirst(component) ==
    IF component.kind = "single"
    THEN Put(EmptyDict, component.items[1].type, component.items[1].val)
    ELSE DictOfSeq([i \in 1..Len(component.items) |->
                       component.items[Len(component.items) + 1 - i]])

\* the isinstance(component, Component) branch of create and set
ComponentDictOf(component) ==
    IF component.kind = "single"
    THEN Put(EmptyDict, component.items[1].type, component.items[1].val)
    ELSE DictOfSeq(component.items)

\* ------------------------------------------------------------ public API
\* ---------------------------------------------------------------- Filter
\* A filter is the expression it was built from: a component type (every
\* Component class is a filter, ComponentMeta.__init__), or the result of
\* &, | and ~ on filters.
TypeFilter(t) == [op |-> t, args |-> <<>>]

\* Filter.__and__
And(self, other) == [op |-> "and", args |-> <<self, other>>]

\* Filter.__or__
Or(self, other) == [op |-> "or", args |-> <<self, other>>]

\* Filter.__invert__
Not(self) == [op |-> "not", args |-> <<self>>]

\* Filter._single_filter: the test of one signature
RECURSIVE SingleFilter(_, _)
SingleFilter(f, signature) ==
    IF f.op = "and"
    THEN SingleFilter(f.args[1], signature) /\ SingleFilter(f.args[2], signature)
    ELSE IF f.op = "or"
    THEN SingleFilter(f.args[1], signature) \/ SingleFilter(f.args[2], signature)
    ELSE IF f.op = "not"
    THEN ~SingleFilter(f.args[1], signature)
    ELSE f.op \in signature

\* Filter._group_filter: the test of an inverted index, giving the set of
\* matching containers; ~ takes the complement within the union of the sets
\* of the index, and set.union() of no set at all raises TypeError
RECURSIVE GroupFilter(_, _)
GroupFilter(f, archetypemap) ==
    IF f.op \in {"and", "or"}
    THEN LET l == GroupFilter(f.args[1], archetypemap)
             r == GroupFilter(f.args[2], archetypemap)
         IN IF l.err # "none" THEN l
            ELSE IF r.err # "none" THEN r
            ELSE [err |-> "none",
                  set |-> IF f.op = "and" THEN l.set \cap r.set ELSE l.set \cup r.set]
    ELSE IF f.op = "not"
    THEN IF DOMAIN archetypemap = {}
         THEN [err |-> "TypeError", set |-> {}]
         ELSE LET g == GroupFilter(f.args[1], archetypemap)
              IN IF g.err # "none" THEN g
                 ELSE [err |-> "none",
                       set |-> UNION {archetypemap[t] : t \in DOMAIN archetypemap} \ g.set]
    ELSE [err |-> "none",
          set |-> IF f.op \in DOMAIN archetypemap THEN archetypemap[f.op] ELSE {}]

\* the filters a client builds with at most one operator
AtomFilters == {TypeFilter(t) : t \in Types}

UnaryFilters == AtomFilters \cup {Not(f) : f \in AtomFilters}

SimpleFilters ==
    UnaryFilters \cup {And(f, g) : f, g \in AtomFilters} \cup {Or(f, g) : f, g \in AtomFilters}

NoFilter == [op |-> "none", args |-> <<>>]

\* ------------------------------------------------------------------ View
\* the storage as a parent of views: Storage.storage is the storage itself
TheStorage == [kind |-> "Storage", storage |-> "S", filter |-> NoFilter]

NoView == [kind |-> "none", storage |-> "", filter |-> NoFilter]

\* View.__init__
View(storage_or_view, filter) ==
    [kind |-> "View",
     storage |-> storage_or_view.storage,
     filter |-> IF storage_or_view.kind = "View"
                THEN And(filter, storage_or_view.filter)
                ELSE filter]

\* the views of the model: over the storage with a filter of one operator,
\* and over such a view of a type or a negated type with another such filter
Views ==
    {View(TheStorage, f) : f \in SimpleFilters}
        \cup {View(View(TheStorage, f), g) : f, g \in UnaryFilters}

\* View._matching_containers
MatchingContainers(S, view) == GroupFilter(view.filter, S.c2c)

\* the entities of the rows of the containers of `order` from position i on
RECURSIVE IterLoop(_, _, _)
IterLoop(heap, order, i) ==
    IF i > Len(order) THEN <<>>
    ELSE [k \in 1..Len(heap[order[i]].entities) |->
             [entity |-> heap[order[i]].entities[k], components |-> <<>>]]
         \o IterLoop(heap, order, i + 1)

\* what is recorded of a call: row is the row _Container.remove was asked to
\* free (-1 when the call removed no row), arg the components a successful
\* set was given (None otherwise), types the component types a read was
\* asked for, ret what the read returned or yielded before it ended, view
\* the view that was iterated
ResultAt(op, entity, err, row) ==
    [op |-> op, entity |-> entity, err |-> err, row |-> row, arg |-> None,
     types |-> None, ret |-> <<>>, view |-> NoView]

Result(op, entity, err) == ResultAt(op, entity, err, -1)

\* ---------------------------------------------------- sequences in flight
\* Storage.select and View.__iter__ are generator functions: the call returns
\* a generator whose body runs as the client consumes it, reading the lists
\* of the live containers at every step.  The model keeps the one generator
\* the client is consuming:
\*   kind     "select", "iterate", or "none" when the client holds none
\*   status   "new" until the first next(), "active" while values are
\*            yielded, "done" after StopIteration, else the error raised
\*   source   the set of containers the body iterates, live when it is the
\*            very set of the inverted index (a view with a bare type as
\*            filter), size its cardinality when the iteration of it began
\*   visited  the containers fetched from the set so far, cur the one whose
\*            rows are being yielded, row the position of its list iterator
\*   ret      the rows yielded so far
\*   start    the storage when the body began to run
NoContainer == [signature |-> {}, serial |-> 0]

NoGenerator ==
    [kind |-> "none", types |-> None, view |-> NoView, status |-> "none",
     source |-> {}, live |-> FALSE, size |-> 0, visited |-> {},
     cur |-> NoContainer, row |-> 0, ret |-> <<>>, start |-> EmptyStorage]

Running(g) == g.status \in {"new", "active"}

\* the containers the frame of a running generator refers to
Held(g) == IF Running(g) THEN g.source \cup ({g.cur} \ {NoContainer}) ELSE {}

\* Objects neither an index nor the generator refers to are reclaimed.
CollectHeld(S, g) ==
    [S EXCEPT !.heap = [c \in (DOMAIN S.heap) \cap (Referenced(S) \cup Held(g)) |-> S.heap[c]]]

\* the state written back after a call
Commit(S) ==
    \E T \in {CollectHeld(S, generator)} :
        /\ entity_to_container' = T.e2c
        /\ ctype_to_container' = T.c2c
        /\ signature_to_container' = T.s2c
        /\ containers' = T.heap

StorageUnchanged ==
    UNCHANGED <<entity_to_container, ctype_to_container, signature_to_container, containers>>

\* all rows of all live containers
RECURSIVE SumLen(_, _)
SumLen(heap, cids) ==
    IF cids = {} THEN 0
    ELSE LET c == CHOOSE x \in cids : TRUE
         IN Len(heap[c].entities) + SumLen(heap, cids \ {c})

TotalRows == SumLen(containers, DOMAIN containers)

\* rows no index entry of the storage leads to any more
StaleRows == TotalRows - Cardinality(DOMAIN entity_to_container)

\* the body of Storage.create once the id is known
CreateBody(component, entity_id) ==
    IF component # None
    THEN AddEntity(StorageState, entity_id, ComponentDictOf(component))
    ELSE StorageState

\* Storage.create(component) : entity_id is None, an id is minted from `pool`
Create(pool, component) ==
    \E entity_id \in pool \ minted :
        /\ component # None => TotalRows < MaxRows
        /\ Commit(CreateBody(component, entity_id))
        /\ minted' = minted \cup {entity_id}
        /\ UNCHANGED <<commands, inside, generator>>
        /\ last' = Result("create", entity_id, "none")

\* Storage.create(component, entity_id) : the caller supplies an id it was given
CreateWithId(component, entity_id) ==
    /\ component # None => TotalRows < MaxRows
    /\ (component # None /\ entity_id \in DOMAIN entity_to_container) => StaleRows < MaxStale
    /\ Commit(CreateBody(component, entity_id))
    /\ UNCHANGED <<minted, commands, inside, generator>>
    /\ last' = Result("create_id", entity_id, "none")

\* Storage.destroy
Destroy(entity) ==
    IF entity \notin DOMAIN entity_to_container
    THEN /\ StorageUnchanged
         /\ UNCHANGED <<minted, commands, inside, generator>>
         /\ last' = Result("destroy", entity, "EntityError")
    ELSE /\ Commit(RemoveEntity(StorageState, entity_to_container[entity], entity))
         /\ UNCHANGED <<minted, commands, inside, generator>>
         /\ last' = ResultAt("destroy", entity, "none",
                             containers[entity_to_container[entity]].indices[entity])

\* Storage.set
Set(entity, component) ==
    IF entity \notin DOMAIN entity_to_container
    THEN /\ StorageUnchanged
         /\ UNCHANGED <<minted, commands, inside, generator>>
         /\ last' = Result("set", entity, "EntityError")
    ELSE /\ Commit(UpdateEntity(StorageState, entity_to_container[entity], entity,
                                ComponentDictOf(component)))
         /\ UNCHANGED <<minted, commands, inside, generator>>
         /\ last' = [Result("set", entity, "none") EXCEPT !.arg = component]

\* Storage.delete is declared `def delete(entity, component_type)`, without
\* self: the call storage.delete(entity, component_type) passes three
\* positional arguments to a function of two, and Python raises TypeError
\* before the body runs.
Delete(entity, component_types) ==
    /\ StorageUnchanged
    /\ UNCHANGED <<minted, commands, inside, generator>>
    /\ last' = Result("delete", entity, "TypeError")

\* Storage.clear
Clear ==
    /\ Commit([StorageState EXCEPT !.e2c = EmptyDict, !.c2c = EmptyDict, !.s2c = EmptyDict])
    /\ UNCHANGED <<minted, commands, inside, generator>>
    /\ last' = Result("clear", 0, "none")

\* Storage.components
Components(entity) ==
    /\ StorageUnchanged
    /\ UNCHANGED <<minted, commands, inside, generator>>
    /\ last' = Result("components", entity,
                      IF entity \in DOMAIN entity_to_container THEN "none" ELSE "EntityError")

\* Storage.signature
Signature(entity) ==
    /\ StorageUnchanged
    /\ UNCHANGED <<minted, commands, inside, generator>>
    /\ last' = Result("signature", entity,
                      IF entity \in DOMAIN entity_to_container THEN "none" ELSE "EntityError")

\* Storage.match answering as Storage.signature does for an entity that is
\* not tracked
MatchStrict(entity, filter) ==
    /\ StorageUnchanged
    /\ UNCHANGED <<minted, commands, inside, generator>>
    /\ last' = IF entity \in DOMAIN entity_to_container
               THEN [Result("match", entity, "none") EXCEPT
                        !.view = [NoView EXCEPT !.filter = filter],
                        !.ret = <<SingleFilter(filter,
                                    containers[entity_to_container[entity]].signature)>>]
               ELSE [Result("match", entity, "EntityError") EXCEPT
                        !.view = [NoView EXCEPT !.filter = filter]]

\* Storage.match: the filter's test of one signature on the signature of the
\* entity's container, or on Signature() when the lookup raises KeyError; the
\* filter asked and the boolean returned are recorded
Match(entity, filter) ==
    /\ StorageUnchanged
    /\ UNCHANGED <<minted, commands, inside, generator>>
    /\ \E signature \in {IF entity \in DOMAIN entity_to_container
                          THEN containers[entity_to_container[entity]].signature
                          ELSE {}} :
          last' = [Result("match", entity, "none") EXCEPT
                      !.view = [NoView EXCEPT !.filter = filter],
                      !.ret = <<SingleFilter(filter, signature)>>]

\* the body of Storage.get: the error raised and the value returned; a single
\* type returns the component (ret holds it alone), an iterable returns the
\* list of components; a KeyError of the column lookup becomes ComponentError
GetBody(S, entity, component_type) ==
    IF entity \notin DOMAIN S.e2c
    THEN [err |-> "EntityError", ret |-> <<>>]
    ELSE LET container == S.heap[S.e2c[entity]]
         IN IF component_type.kind = "single"
            THEN IF component_type.items[1] \notin DOMAIN container.components
                 THEN [err |-> "ComponentError", ret |-> <<>>]
                 ELSE [err |-> "none",
                       ret |-> <<ContainerGetComponent(container, entity,
                                                       component_type.items[1])>>]
            ELSE IF \E i \in 1..Len(component_type.items) :
                        component_type.items[i] \notin DOMAIN container.components
                 THEN [err |-> "ComponentError", ret |-> <<>>]
                 ELSE [err |-> "none",
                       ret |-> ContainerGetComponents(container, entity,
                                                      component_type.items)]

\* Storage.get
Get(entity, component_type) ==
    /\ StorageUnchanged
    /\ UNCHANGED <<minted, commands, inside, generator>>
    /\ \E r \in {GetBody(StorageState, entity, component_type)} :
          last' = [Result("get", entity, r.err) EXCEPT
                       !.types = component_type, !.ret = r.ret]

\* the orders in which a Python set of containers may be iterated
Orders(cids) ==
    {o \in [1..Cardinality(cids) -> cids] :
        \A i, j \in 1..Cardinality(cids) : i # j => o[i] # o[j]}

\* zip(container, component_list) and zip(container, zip(*component_lists)):
\* one pair per row, as long as the shortest of the lists; zip of no list at
\* all is empty
ZipRows(c, types) ==
    IF Len(types) = 0 THEN <<>>
    ELSE [i \in 1..Len(c.entities) |->
             [entity |-> c.entities[i],
              components |-> [k \in 1..Len(types) |-> c.components[types[k]][i]]]]

\* the loop of Storage.select and View.select over the containers of `order`
\* from position i on: the pairs yielded and the error that ends the
\* iteration, ComponentError at the first container without a requested
\* column (the pairs of the containers before it have been yielded by then)
RECURSIVE SelectLoop(_, _, _, _)
SelectLoop(heap, order, i, component_type) ==
    IF i > Len(order) THEN [err |-> "none", ret |-> <<>>]
    ELSE LET container == heap[order[i]]
         IN IF \E k \in 1..Len(component_type.items) :
                   component_type.items[k] \notin DOMAIN container.components
            THEN [err |-> "ComponentError", ret |-> <<>>]
            ELSE LET rest == SelectLoop(heap, order, i + 1, component_type)
                 IN [err |-> rest.err,
                     ret |-> ZipRows(container, component_type.items) \o rest.ret]

\* the containers of the inverted index: set.union(*ctype_to_container.values())
UnionOfIndex(S) == UNION {S.c2c[t] : t \in DOMAIN S.c2c}

\* Storage.select consumed to its end, the containers visited in `order`;
\* set.union() of no set at all raises TypeError
SelectBody(S, order, component_type) ==
    IF DOMAIN S.c2c = {}
    THEN [err |-> "TypeError", ret |-> <<>>]
    ELSE SelectLoop(S.heap, order, 1, component_type)

\* Storage.select: the generator is run until it ends or raises
Select(component_type) ==
    /\ StorageUnchanged
    /\ UNCHANGED <<minted, commands, inside, generator>>
    /\ \E order \in Orders(UnionOfIndex(StorageState)) :
          \E r \in {SelectBody(StorageState, order, component_type)} :
              last' = [Result("select", 0, r.err) EXCEPT
                           !.types = component_type, !.ret = r.ret]

\* View.__len__
ViewLen(S, view) ==
    LET m == MatchingContainers(S, view)
    IN [err |-> m.err, len |-> SumLen(S.heap, m.set)]

\* View.__bool__: True at the first matching container
ViewBool(S, view) ==
    LET m == MatchingContainers(S, view)
    IN [err |-> m.err, bool |-> m.set # {}]

\* View.__contains__
ViewContains(S, view, entity) ==
    IF entity \notin DOMAIN S.e2c THEN FALSE
    ELSE SingleFilter(view.filter, S.heap[S.e2c[entity]].signature)

\* View.__iter__ run to its end: the group test of the filter is evaluated
\* when the iteration starts, then the entities of each matching container
\* are yielded, the containers in the order of the set
Iterate(view) ==
    /\ StorageUnchanged
    /\ UNCHANGED <<minted, commands, inside, generator>>
    /\ \E m \in {MatchingContainers(StorageState, view)} :
          \E order \in Orders(m.set) :
              last' = [Result("iterate", 0, m.err) EXCEPT
                           !.view = view, !.ret = IterLoop(containers, order, 1)]

\* len(view) with a group test that looks a bare type up with
\* archetypemap.setdefault(self, set()): a type without a key gets one
ViewLenCallSetdefault(view) ==
    /\ ctype_to_container' =
          [t \in DOMAIN ctype_to_container \cup ({view.filter.op} \cap Types) |->
              IF t \in DOMAIN ctype_to_container THEN ctype_to_container[t] ELSE {}]
    /\ UNCHANGED <<entity_to_container, signature_to_container, containers>>
    /\ UNCHANGED <<minted, commands, inside, generator>>
    /\ \E r \in {ViewLen(StorageState, view)} :
          last' = [Result("len", 0, r.err) EXCEPT !.view = view, !.ret = <<r.len>>]

\* len(view): View.__len__ called by the client
ViewLenCall(view) ==
    /\ StorageUnchanged
    /\ UNCHANGED <<minted, commands, inside, generator>>
    /\ \E r \in {ViewLen(StorageState, view)} :
          last' = [Result("len", 0, r.err) EXCEPT !.view = view, !.ret = <<r.len>>]

\* bool(view): View.__bool__ called by the client
ViewBoolCall(view) ==
    /\ StorageUnchanged
    /\ UNCHANGED <<minted, commands, inside, generator>>
    /\ \E r \in {ViewBool(StorageState, view)} :
          last' = [Result("bool", 0, r.err) EXCEPT !.view = view, !.ret = <<r.bool>>]

\* entity in view: View.__contains__ called by the client; it raises nothing
ViewContainsCall(view, entity) ==
    /\ StorageUnchanged
    /\ UNCHANGED <<minted, commands, inside, generator>>
    /\ last' = [Result("contains", entity, "none") EXCEPT
                    !.view = view, !.ret = <<ViewContains(StorageState, view, entity)>>]

\* Storage.select called: a generator whose body has not started
SelectGenerator(component_type) ==
    [NoGenerator EXCEPT !.kind = "select", !.types = component_type, !.status = "new"]

\* View.__iter__ called
IterateGenerator(view) ==
    [NoGenerator EXCEPT !.kind = "iterate", !.view = view, !.status = "new"]

\* View.select called, of yaecs/view.py ("view_select") or of the View class
\* that yaecs/__init__.py defines ("package_view_select")
ViewSelectGenerator(kind, view, component_type) ==
    [NoGenerator EXCEPT !.kind = kind, !.view = view, !.types = component_type,
                        !.status = "new"]

\* the generators that yield pairs of an entity and its components
Selects(g) == g.kind \in {"select", "view_select", "package_view_select"}

\* what a select raises at a container without a requested column: the
\* KeyError of component_list is turned into ComponentError(component_type),
\* by the View of yaecs/__init__.py into KeyError(component_types)
MissingColumn(g) == IF g.kind = "package_view_select" THEN "KeyError" ELSE "ComponentError"

\* the start of the body: Storage.select unites the sets of the inverted index
\* into a new set (TypeError when there is none); View._matching_containers
\* takes the set of the group test, which for a bare type is the set of the
\* index itself (archetypemap.get(self, set())) and else a new set
Begin(S, g) ==
    IF g.kind = "select"
    THEN IF DOMAIN S.c2c = {}
         THEN [g EXCEPT !.status = "TypeError", !.start = S]
         ELSE [g EXCEPT !.status = "active", !.start = S, !.source = UnionOfIndex(S),
                        !.size = Cardinality(UnionOfIndex(S))]
    ELSE LET m == MatchingContainers(S, g.view)
         IN IF m.err # "none"
            THEN [g EXCEPT !.status = m.err, !.start = S]
            ELSE [g EXCEPT !.status = "active", !.start = S, !.source = m.set,
                           !.size = Cardinality(m.set),
                           !.live = g.view.filter.op \in DOMAIN S.c2c]

\* the set the body iterates, as it is now
SourceNow(S, g) ==
    IF ~g.live THEN g.source
    ELSE IF g.view.filter.op \in DOMAIN S.c2c THEN S.c2c[g.view.filter.op] ELSE {}

\* the row the list iterators of the current container are at, if the lists
\* (as they are now) reach that far: zip stops at the shortest, and zip of
\* no list at all yields nothing
RowsLeft(S, g) ==
    LET c == S.heap[g.cur]
    IN IF Selects(g)
       THEN /\ Len(g.types.items) > 0
            /\ g.row < Len(c.entities)
            /\ \A k \in 1..Len(g.types.items) : g.row < Len(c.components[g.types.items[k]])
       ELSE g.row < Len(c.entities)

RowAt(S, g) ==
    LET c == S.heap[g.cur]
    IN [entity |-> c.entities[g.row + 1],
        components |-> IF Selects(g)
                       THEN [k \in 1..Len(g.types.items) |->
                                c.components[g.types.items[k]][g.row + 1]]
                       ELSE <<>>]

\* one next() of an active generator: the outcomes it can have.  The next row
\* of the current container is yielded; when its lists are exhausted the next
\* container is fetched from the set.  A set that is a new object is
\* iterated in its order, whatever happens to the storage.  The iterator of
\* the index's own set raises RuntimeError when the set has changed size,
\* and when the set was changed and has its old size the iterator may find
\* any member it has not visited, or none, or (the set having been dropped
\* from the index and made anew) the emptied old set: RuntimeError.
\* Storage.select asks a fetched container for its columns and raises
\* ComponentError when one is missing.
RECURSIVE Advance(_, _)
Advance(S, g) ==
    IF g.cur # NoContainer /\ RowsLeft(S, g)
    THEN {[g EXCEPT !.ret = Append(g.ret, RowAt(S, g)), !.row = g.row + 1]}
    ELSE LET now == SourceNow(S, g)
             candidates == now \ g.visited
             stop == [g EXCEPT !.status = "done", !.cur = NoContainer]
             broken == [g EXCEPT !.status = "RuntimeError", !.cur = NoContainer]
             Fetch(c) ==
                 IF /\ Selects(g)
                    /\ \E k \in 1..Len(g.types.items) :
                          g.types.items[k] \notin DOMAIN S.heap[c].components
                 THEN {[g EXCEPT !.status = MissingColumn(g), !.cur = NoContainer,
                                 !.visited = g.visited \cup {c}]}
                 ELSE Advance(S, [g EXCEPT !.cur = c, !.row = 0,
                                          !.visited = g.visited \cup {c}])
         IN IF g.live /\ Cardinality(now) # g.size THEN {broken}
            ELSE IF candidates = {} THEN IF now # g.source THEN {stop, broken} ELSE {stop}
            ELSE UNION {Fetch(c) : c \in candidates}
                     \cup (IF now # g.source THEN {stop, broken} ELSE {})

\* next(generator)
NextOf(S, g) == IF g.status = "new" THEN
                    LET b == Begin(S, g)
                    IN IF b.status = "active" THEN Advance(S, b) ELSE {b}
                ELSE Advance(S, g)

\* the client calls Storage.select and keeps the generator
StartSelect(component_type) ==
    /\ generator' = SelectGenerator(component_type)
    /\ \E T \in {CollectHeld(StorageState, SelectGenerator(component_type))} :
          containers' = T.heap
    /\ UNCHANGED <<entity_to_container, ctype_to_container, signature_to_container>>
    /\ UNCHANGED <<minted, commands, inside>>
    /\ last' = [Result("select", 0, "none") EXCEPT !.types = component_type]

\* the client calls iter(view) and keeps the generator
StartIterate(view) ==
    /\ generator' = IterateGenerator(view)
    /\ \E T \in {CollectHeld(StorageState, IterateGenerator(view))} :
          containers' = T.heap
    /\ UNCHANGED <<entity_to_container, ctype_to_container, signature_to_container>>
    /\ UNCHANGED <<minted, commands, inside>>
    /\ last' = [Result("iterate", 0, "none") EXCEPT !.view = view]

\* the client calls View.select and keeps the generator
StartViewSelect(kind, view, component_type) ==
    /\ generator' = ViewSelectGenerator(kind, view, component_type)
    /\ \E T \in {CollectHeld(StorageState, ViewSelectGenerator(kind, view, component_type))} :
          containers' = T.heap
    /\ UNCHANGED <<entity_to_container, ctype_to_container, signature_to_container>>
    /\ UNCHANGED <<minted, commands, inside>>
    /\ last' = [Result(kind, 0, "none") EXCEPT !.types = component_type, !.view = view]

\* the client calls next() on the generator it holds; a generator that ended
\* or raised lets go of its containers
GeneratorNext ==
    /\ Running(generator)
    /\ \E g \in NextOf(StorageState, generator) :
          /\ generator' = g
          /\ \E T \in {CollectHeld(StorageState, g)} : containers' = T.heap
          /\ last' = [Result("next",
                             IF g.status = "active" THEN g.ret[Len(g.ret)].entity ELSE 0,
                             IF g.status \in {"active", "done"} THEN "none" ELSE g.status)
                          EXCEPT !.types = g.types, !.view = g.view, !.ret = g.ret]
    /\ UNCHANGED <<entity_to_container, ctype_to_container, signature_to_container>>
    /\ UNCHANGED <<minted, commands, inside>>

\* --------------------------------------------------------- CommandBuffer
\* A queued command is the tuple defer_* appends: the bound method and the
\* tuple of its arguments; len is the length of the queued tuple, which is 2
\* except for defer_clear, which appends the 1-tuple (self._storage.clear,).
Command(method, entity, component, component_type, len) ==
    [method |-> method, entity |-> entity, component |-> component,
     component_type |-> component_type, len |-> len]

\* a call of a public method of the storage on the state S: the state it
\* leaves and the error it raises
ApplyCall(S, c) ==
    IF c.method = "create"
    THEN [S |-> Collect(IF c.component # None
                        THEN AddEntity(S, c.entity, ComponentDictOf(c.component))
                        ELSE S),
          err |-> "none"]
    ELSE IF c.method = "destroy"
    THEN IF c.entity \notin DOMAIN S.e2c
         THEN [S |-> S, err |-> "EntityError"]
         ELSE [S |-> Collect(RemoveEntity(S, S.e2c[c.entity], c.entity)), err |-> "none"]
    ELSE IF c.method = "set"
    THEN IF c.entity \notin DOMAIN S.e2c
         THEN [S |-> S, err |-> "EntityError"]
         ELSE [S |-> Collect(UpdateEntity(S, S.e2c[c.entity], c.entity,
                                          ComponentDictOf(c.component))),
               err |-> "none"]
    ELSE IF c.method = "delete"
    THEN [S |-> S, err |-> "TypeError"]
    ELSE [S |-> Collect([S EXCEPT !.e2c = EmptyDict, !.c2c = EmptyDict,
                                  !.s2c = EmptyDict]),
          err |-> "none"]

\* the loop of CommandBuffer.flush from position i on: `for cmd, args in
\* self._commands` unpacks each queued tuple into two names, which raises
\* ValueError for a tuple of another length, then calls cmd(*args); an
\* exception ends the loop with the calls made so far applied
RECURSIVE FlushLoop(_, _, _)
FlushLoop(S, queue, i) ==
    IF i > Len(queue) THEN [S |-> S, err |-> "none"]
    ELSE IF queue[i].len # 2 THEN [S |-> S, err |-> "ValueError"]
    ELSE LET r == ApplyCall(S, queue[i])
         IN IF r.err # "none" THEN r ELSE FlushLoop(r.S, queue, i + 1)

\* self._commands.append(...), the storage untouched
Enqueue(c) ==
    /\ Len(commands) < MaxQueue
    /\ commands' = Append(commands, c)
    /\ StorageUnchanged
    /\ UNCHANGED <<inside, generator>>

\* the components and component types the buffered calls are given
BufferComponents == {None} \cup {Single(c) : c \in ComponentInstances}

BufferTypes == {Single(t) : t \in Types}

\* what `last` holds as entity when a call names no entity and returns none
\* (Python's None); entity ids start at 1
NoEntity == 0

\* CommandBuffer.defer_create: mints the id and queues the create; the body
\* has no return statement, so the call returns None; `last` holds what the
\* call returned
DeferCreate(pool, component) ==
    \E entity \in pool \ minted :
        /\ Enqueue(Command("create", entity, component, None, 2))
        /\ minted' = minted \cup {entity}
        /\ last' = Result("defer_create", NoEntity, "none")

\* CommandBuffer.defer_destroy
DeferDestroy(entity) ==
    /\ Enqueue(Command("destroy", entity, None, None, 2))
    /\ UNCHANGED minted
    /\ last' = Result("defer_destroy", entity, "none")

\* CommandBuffer.defer_set that also calls Storage.set at once
DeferSetEager(entity, component) ==
    /\ Len(commands) < MaxQueue
    /\ commands' = Append(commands, Command("set", entity, component, None, 2))
    /\ Commit(ApplyCall(StorageState, Command("set", entity, component, None, 2)).S)
    /\ UNCHANGED <<minted, inside, generator>>
    /\ last' = Result("defer_set", entity, "none")

\* CommandBuffer.defer_set
DeferSet(entity, component) ==
    /\ Enqueue(Command("set", entity, component, None, 2))
    /\ UNCHANGED minted
    /\ last' = Result("defer_set", entity, "none")

\* CommandBuffer.defer_delete
DeferDelete(entity, component_type) ==
    /\ Enqueue(Command("delete", entity, None, component_type, 2))
    /\ UNCHANGED minted
    /\ last' = Result("defer_delete", entity, "none")

\* CommandBuffer.defer_clear
DeferClear ==
    /\ Enqueue(Command("clear", 0, None, None, 1))
    /\ UNCHANGED minted
    /\ last' = Result("defer_clear", 0, "none")

\* CommandBuffer.clear
BufferClear ==
    /\ commands' = <<>>
    /\ StorageUnchanged
    /\ UNCHANGED <<minted, inside, generator>>
    /\ last' = Result("buffer_clear", 0, "none")

\* the body of CommandBuffer.flush, recorded as the call `op`: the queue is
\* cleared only when the loop ends without an exception
FlushBody(op) ==
    \E r \in {FlushLoop(StorageState, commands, 1)} :
        /\ SumLen(r.S.heap, DOMAIN r.S.heap) <= MaxRows
        /\ Commit(r.S)
        /\ commands' = IF r.err = "none" THEN <<>> ELSE commands
        /\ UNCHANGED minted
        /\ last' = Result(op, 0, r.err)

\* CommandBuffer.flush that applies nothing when a queued command raises
FlushAtomic ==
    \E r \in {FlushLoop(StorageState, commands, 1)} :
        /\ SumLen(r.S.heap, DOMAIN r.S.heap) <= MaxRows
        /\ Commit(IF r.err = "none" THEN r.S ELSE StorageState)
        /\ commands' = IF r.err = "none" THEN <<>> ELSE commands
        /\ UNCHANGED <<minted, inside, generator>>
        /\ last' = Result("flush", 0, r.err)

\* CommandBuffer.flush
Flush ==
    /\ FlushBody("flush")
    /\ UNCHANGED <<inside, generator>>

\* CommandBuffer.__enter__: the `with` statement enters the block
Enter ==
    /\ ~inside
    /\ inside' = TRUE
    /\ UNCHANGED generator
    /\ StorageUnchanged
    /\ UNCHANGED <<minted, commands>>
    /\ last' = Result("enter", 0, "none")

\* CommandBuffer.__exit__: the block is left and flush is called; an
\* exception of the flush leaves the block as well
Exit ==
    /\ inside
    /\ inside' = FALSE
    /\ UNCHANGED generator
    /\ FlushBody("exit")

\* ------------------------------------------------------------ the reads
\* Storage.__contains__
Tracked(entity) == entity \in DOMAIN entity_to_container

\* Storage.__len__
StorageLen == Cardinality(DOMAIN entity_to_container)

\* the value Storage.signature returns for a tracked entity
SignatureOf(S, entity) == S.heap[S.e2c[entity]].signature

\* the value Storage.get returns for a tracked entity and an attached type
GetOf(S, entity, component_type) ==
    ContainerGetComponent(S.heap[S.e2c[entity]], entity, component_type)

\* ------------------------------------------------------- specifications
Init ==
    /\ entity_to_container = EmptyDict
    /\ ctype_to_container = EmptyDict
    /\ signature_to_container = EmptyDict
    /\ containers = EmptyDict
    /\ minted = {}
    /\ commands = <<>>
    /\ inside = FALSE
    /\ generator = NoGenerator
    /\ last = Result("init", 0, "none")

\* Every call a client can make, over the entity ids of Entities; an explicit
\* entity_id is an id handed out earlier, tracked or not.
Next ==
    \/ \E component \in ComponentArgs : Create(Entities, component)
    \/ \E component \in ComponentArgs, entity_id \in minted : CreateWithId(component, entity_id)
    \/ \E entity \in Entities : Destroy(entity)
    \/ \E entity \in Entities, component \in ComponentArgs \ {None} : Set(entity, component)
    \/ \E entity \in Entities, component_types \in SUBSET Types : Delete(entity, component_types)
    \/ Clear
    \/ \E entity \in Entities : Components(entity)
    \/ \E entity \in Entities : Signature(entity)
    \/ \E entity \in Entities, t \in Types : Get(entity, Single(t))

Spec == Init /\ [][Next]_vars

\* The same calls over one more entity id, by clients that pass an explicit
\* entity_id only for an id that is not tracked (as CommandBuffer.defer_create
\* does): containers reach three rows of three different entities.
NextDense ==
    \/ \E component \in ComponentArgs : Create(DenseEntities, component)
    \/ \E component \in ComponentArgs, entity_id \in minted \ DOMAIN entity_to_container :
            CreateWithId(component, entity_id)
    \/ \E entity \in DenseEntities : Destroy(entity)
    \/ \E entity \in DenseEntities, component \in ComponentArgs \ {None} : Set(entity, component)
    \/ \E entity \in DenseEntities, component_types \in SUBSET Types : Delete(entity, component_types)
    \/ Clear
    \/ \E entity \in DenseEntities : Components(entity)
    \/ \E entity \in DenseEntities : Signature(entity)
    \/ \E entity \in DenseEntities, t \in Types : Get(entity, Single(t))

SpecDense == Init /\ [][NextDense]_vars

\* The calls that build a population and the reads over it: get and select
\* with one type or an iterable of types, and the iteration of a view.  An explicit entity_id is passed only for an id
\* that is not tracked.
NextQuery ==
    \/ \E component \in ComponentArgs : Create(Entities, component)
    \/ \E component \in ComponentArgs, entity_id \in minted \ DOMAIN entity_to_container :
            CreateWithId(component, entity_id)
    \/ \E entity \in Entities : Destroy(entity)
    \/ \E entity \in Entities, component \in ComponentArgs \ {None} : Set(entity, component)
    \/ Clear
    \/ \E entity \in Entities, component_type \in TypeArgs : Get(entity, component_type)
    \/ \E component_type \in TypeArgs : Select(component_type)
    \/ \E view \in Views : Iterate(view)
    \/ \E entity \in Entities, filter \in SimpleFilters : Match(entity, filter)

SpecQuery == Init /\ [][NextQuery]_vars

\* A client that populates the storage and reads it in every way: the
\* reads of the storage, and iteration, len, bool and membership of views
\* over filters built with AND, OR and NOT.
NextRead ==
    \/ \E component \in ComponentArgs : Create(Entities, component)
    \/ \E entity \in Entities : Destroy(entity)
    \/ \E entity \in Entities, component \in ComponentArgs \ {None} : Set(entity, component)
    \/ \E entity \in Entities : Components(entity)
    \/ \E entity \in Entities : Signature(entity)
    \/ \E entity \in Entities, component_type \in TypeArgs : Get(entity, component_type)
    \/ \E entity \in Entities, filter \in SimpleFilters : Match(entity, filter)
    \/ \E component_type \in TypeArgs : Select(component_type)
    \/ \E view \in Views : Iterate(view)
    \/ \E view \in Views : ViewLenCall(view)
    \/ \E view \in Views : ViewBoolCall(view)
    \/ \E view \in Views, entity \in Entities : ViewContainsCall(view, entity)

SpecRead == Init /\ [][NextRead]_vars

\* A client that changes the storage only through one command buffer.
NextBuffer ==
    \/ \E component \in BufferComponents : DeferCreate(Entities, component)
    \/ \E entity \in Entities : DeferDestroy(entity)
    \/ \E entity \in Entities, component \in BufferComponents \ {None} :
            DeferSet(entity, component)
    \/ \E entity \in Entities, component_type \in BufferTypes :
            DeferDelete(entity, component_type)
    \/ DeferClear
    \/ BufferClear
    \/ Flush

SpecBuffer == Init /\ [][NextBuffer]_vars

\* A client that uses the command buffer as a context manager: it queues
\* inside `with buffer:` blocks, and the buffer is flushed when a block is
\* left.
NextWith ==
    \/ Enter
    \/ inside /\ \E component \in BufferComponents : DeferCreate(Entities, component)
    \/ inside /\ \E entity \in Entities : DeferDestroy(entity)
    \/ inside /\ \E entity \in Entities, component \in BufferComponents \ {None} :
                     DeferSet(entity, component)
    \/ inside /\ \E entity \in Entities, component_type \in BufferTypes :
                     DeferDelete(entity, component_type)
    \/ inside /\ DeferClear
    \/ Exit

SpecWith == Init /\ [][NextWith]_vars

\* what the clients that consume a sequence step by step pass
SequenceComponents == {Single(c) : c \in ComponentInstances}

SequenceTypes == {Single(t) : t \in Types}

SequenceViews == {View(TheStorage, f) : f \in UnaryFilters}

\* A client that consumes a select or a view sequence one next() at a time
\* and changes the storage only through a command buffer, which it flushes
\* when no sequence is in flight.
NextDeferred ==
    \/ \E component \in SequenceComponents : DeferCreate(Entities, component)
    \/ \E entity \in Entities : DeferDestroy(entity)
    \/ \E entity \in Entities, component \in SequenceComponents : DeferSet(entity, component)
    \/ ~Running(generator) /\ Flush
    \/ \E component_type \in SequenceTypes : StartSelect(component_type)
    \/ \E view \in SequenceViews : StartIterate(view)
    \/ GeneratorNext

SpecDeferred == Init /\ [][NextDeferred]_vars

\* A client that consumes a select or a view sequence one next() at a time
\* and calls the storage directly in between.  No explicit entity_id is
\* passed.
NextDirect ==
    \/ \E component \in SequenceComponents : Create(Entities, component)
    \/ \E entity \in Entities : Destroy(entity)
    \/ \E entity \in Entities, component \in SequenceComponents : Set(entity, component)
    \/ \E entity \in Entities, component_types \in SUBSET Types : Delete(entity, component_types)
    \/ \E component_type \in SequenceTypes : StartSelect(component_type)
    \/ \E view \in SequenceViews : StartIterate(view)
    \/ GeneratorNext

SpecDirect == Init /\ [][NextDirect]_vars

\* the views whose select is consumed step by step: over a type, a negated
\* type, and the union of the two types
SelectViews ==
    SequenceViews \cup {View(TheStorage, Or(TypeFilter("A"), TypeFilter("B")))}

\* A client that builds a population by direct calls and consumes the
\* sequence of a View.select one next() at a time, calling the storage only
\* when no sequence is in flight.  The View is the class of yaecs/view.py or
\* the one yaecs/__init__.py defines.
NextLazy ==
    \/ ~Running(generator) /\ \E component \in SequenceComponents : Create(Entities, component)
    \/ ~Running(generator) /\ \E entity \in Entities : Destroy(entity)
    \/ ~Running(generator) /\ \E entity \in Entities, component \in SequenceComponents :
                                   Set(entity, component)
    \/ \E view \in SelectViews, component_type \in SequenceTypes :
           StartViewSelect("view_select", view, component_type)
    \/ \E view \in SelectViews, component_type \in SequenceTypes :
           StartViewSelect("package_view_select", view, component_type)
    \/ GeneratorNext

SpecLazy == Init /\ [][NextLazy]_vars


\* ------------------------------------------------------------ vocabulary
\* containers registered in signature_to_container
Registered == {signature_to_container[sg] : sg \in DOMAIN signature_to_container}

\* containers some set of the inverted index holds
Indexed == UNION {ctype_to_container[t] : t \in DOMAIN ctype_to_container}

\* the entities of a container's entity list
Listed(c) == {c.entities[i] : i \in 1..Len(c.entities)}

\* the component types some live container holds a row of the entity for
AttachedTypes(entity) ==
    UNION {containers[cid].signature :
             cid \in {d \in DOMAIN containers : entity \in Listed(containers[d])}}

\* the entity occupies a row of some live container
HasRow(entity) == \E cid \in DOMAIN containers : entity \in Listed(containers[cid])

\* the swap-remove invariants of one container
ContainerDense(c) ==
    /\ DOMAIN c.components = c.signature
    /\ \A t \in DOMAIN c.components : Len(c.components[t]) = Len(c.entities)
    /\ DOMAIN c.indices = Listed(c)
    /\ \A e \in DOMAIN c.indices :
          /\ c.indices[e] \in 0..(Len(c.entities) - 1)
          /\ c.entities[c.indices[e] + 1] = e

\* the types the components of an argument have
TypesOf(component) == {component.items[i].type : i \in 1..Len(component.items)}

\* the values an argument supplies for one type
Supplied(component, t) ==
    {component.items[i].val : i \in {j \in 1..Len(component.items) : component.items[j].type = t}}

\* ---------------------------------------------------------------- claims
\* C1: an entity is a key of entity_to_container iff it has at least one
\* component, and the container it maps to has the signature made of the
\* component types attached to the entity.
C1_EntityIndexExact ==
    \A e \in DenseEntities :
        /\ Tracked(e) <=> AttachedTypes(e) # {}
        /\ Tracked(e) => containers[entity_to_container[e]].signature = AttachedTypes(e)

\* C2: every registered container keeps its columns as long as its entity
\* list, its index keyed by exactly the listed entities, and
\* entities[index[e]] = e.
C2_ContainersDense ==
    \A cid \in Registered : ContainerDense(containers[cid])

\* C3: the inverted index is exact: ctype_to_container[T] is the set of
\* registered containers whose signature contains T, and no key maps to the
\* empty set.
C3_InvertedIndexExact ==
    \A t \in Types :
        LET holders == {cid \in Registered : t \in containers[cid].signature}
        IN IF t \in DOMAIN ctype_to_container
           THEN ctype_to_container[t] # {} /\ ctype_to_container[t] = holders
           ELSE holders = {}

\* C3 witness: a destroy emptied the last container of type A, whose key left
\* the inverted index, while a container of type B stays indexed.
C3_Witness ==
    /\ last.op = "destroy" /\ last.err = "none"
    /\ "A" \notin DOMAIN ctype_to_container
    /\ "B" \in DOMAIN ctype_to_container
    /\ \E e \in DOMAIN entity_to_container : SignatureOf(StorageState, e) = {"B"}

\* C4: no container with zero entities is retained by signature_to_container
\* or by any set of the inverted index.
C4_NoEmptyContainer ==
    \A cid \in Registered \cup Indexed :
        cid \in DOMAIN containers /\ Len(containers[cid].entities) > 0

\* C4 witness: the only entity of its signature was destroyed and no container
\* is left in any index.
C4_Witness ==
    /\ last.op = "destroy" /\ last.err = "none" /\ last.row = 0
    /\ Registered = {} /\ Indexed = {}
    /\ DOMAIN signature_to_container = {} /\ DOMAIN ctype_to_container = {}

\* C5: at most one live container per signature, and entities with equal
\* signatures share their container.
C5_OneContainerPerSignature ==
    /\ \A c1, c2 \in DOMAIN containers :
          containers[c1].signature = containers[c2].signature => c1 = c2
    /\ \A sg \in DOMAIN signature_to_container :
          containers[signature_to_container[sg]].signature = sg
    /\ \A e1, e2 \in DOMAIN entity_to_container :
          SignatureOf(StorageState, e1) = SignatureOf(StorageState, e2)
              => entity_to_container[e1] = entity_to_container[e2]

\* C5 witness: a set moved an entity into the container of signature {A, B}
\* that another entity already occupied.
C5_Witness ==
    /\ last.op = "set" /\ last.err = "none"
    /\ \E e1, e2 \in DOMAIN entity_to_container :
          /\ e1 # e2 /\ e2 = last.entity
          /\ SignatureOf(StorageState, e1) = {"A", "B"}
          /\ entity_to_container[e1] = entity_to_container[e2]
          /\ containers[entity_to_container[e2]].indices[e2] = 1

C7_SetMerges ==
    [][(last'.op = "set" /\ Tracked(last'.entity)) =>
         LET e == last'.entity
             component == last'.arg
         IN /\ last'.err = "none"
            /\ e \in DOMAIN entity_to_container'
            /\ SignatureOf(StorageState', e) =
                   SignatureOf(StorageState, e) \cup TypesOf(component)
            /\ \A t \in TypesOf(component) :
                   GetOf(StorageState', e, t) \in Supplied(component, t)
            /\ \A t \in SignatureOf(StorageState, e) \ TypesOf(component) :
                   GetOf(StorageState', e, t) = GetOf(StorageState, e, t)]_vars

\* C7 witness: a set added type B to an entity that keeps the second value of
\* type A.
C7_Witness ==
    /\ last.op = "set" /\ last.err = "none"
    /\ Tracked(last.entity)
    /\ SignatureOf(StorageState, last.entity) = {"A", "B"}
    /\ GetOf(StorageState, last.entity, "A") = 2

\* C8: delete on a tracked entity is a no-op when none of the types is
\* attached; otherwise the signature loses the types, the remaining values are
\* unchanged, and an entity left without components is untracked.
C8_DeleteRemoves ==
    [][\A e \in Entities, component_types \in SUBSET Types :
         (Tracked(e) /\ Delete(e, component_types)) =>
            LET old == SignatureOf(StorageState, e)
            IN IF old \cap component_types = {}
               THEN StorageState' = StorageState
               ELSE IF old \subseteq component_types
                    THEN e \notin DOMAIN entity_to_container'
                    ELSE /\ e \in DOMAIN entity_to_container'
                         /\ SignatureOf(StorageState', e) = old \ component_types
                         /\ \A t \in old \ component_types :
                               GetOf(StorageState', e, t) = GetOf(StorageState, e, t)]_vars

\* C9: set with a non-empty collection on an entity the storage has no state
\* of succeeds and leaves the storage as create with those components would.
C9_SetNeverFails ==
    [][\A e \in Entities, component \in ComponentArgs \ {None} :
         (~Tracked(e) /\ ~HasRow(e) /\ TypesOf(component) # {} /\ Set(e, component)) =>
            /\ last'.err = "none"
            /\ StorageState' = Collect(CreateBody(component, e))]_vars

\* C10: destroy, delete, components, signature and get on an untracked entity
\* signal EntityError, no other error, and leave the storage unchanged.
C10_StrictPolicy ==
    [][(/\ last'.op \in {"destroy", "delete", "components", "signature", "get"}
        /\ last'.entity \notin DOMAIN entity_to_container) =>
            /\ last'.err = "EntityError"
            /\ StorageState' = StorageState]_vars


\* the component of type t in the row the entity list of the tracked entity's
\* container holds for it, found without the entity's index entry
AttachedValue(entity, t) ==
    LET c == containers[entity_to_container[entity]]
        i == CHOOSE j \in 1..Len(c.entities) : c.entities[j] = entity
    IN c.components[t][i]

\* the component types a read was asked for
Requested(component_type) ==
    {component_type.items[i] : i \in 1..Len(component_type.items)}

C11_WitnessMissing ==
    /\ last.op = "get"
    /\ last.err = "ComponentError"
    /\ last.types.kind = "iterable"
    /\ Requested(last.types) \cap AttachedTypes(last.entity) # {}

\* the containers whose signature holds every requested type
Having(component_type) ==
    {cid \in Registered : Requested(component_type) \subseteq containers[cid].signature}

\* the entities of the pairs a select yielded, one per pair
Yielded(ret) == [i \in 1..Len(ret) |-> ret[i].entity]

\* how often a sequence holds x
Count(seq, x) == Cardinality({i \in 1..Len(seq) : seq[i] = x})

\* C12: select over a storage that holds containers visits exactly the
\* containers whose signature has every requested type and yields their
\* rows; a container lacking a requested type is skipped and no error is
\* raised.
C12_SelectSkips ==
    (last.op = "select" /\ Len(last.types.items) > 0 /\ Registered # {}) =>
        /\ last.err = "none"
        /\ \A e \in Entities :
              Count(Yielded(last.ret), e) =
                  Cardinality({cid \in Having(last.types) : e \in Listed(containers[cid])})

\* C13: a select of one type T run to its end, over a storage that holds
\* containers, yields each tracked entity whose signature has T exactly
\* once, and the component of every yielded pair is the one get returns for
\* the pair's entity.
C13_SelectAligned ==
    (last.op = "select" /\ last.types.kind = "single" /\ Registered # {}) =>
        /\ \A e \in Entities :
              Count(Yielded(last.ret), e) =
                  IF Tracked(e) /\ last.types.items[1] \in SignatureOf(StorageState, e)
                  THEN 1 ELSE 0
        /\ \A i \in 1..Len(last.ret) :
              last.ret[i].components =
                  GetBody(StorageState, last.ret[i].entity, last.types).ret

\* C14: select with no requested types yields every tracked entity exactly
\* once, and no entity without components.
C14_SelectAll ==
    (last.op = "select" /\ Len(last.types.items) = 0) =>
        /\ \A e \in Entities :
              Count(Yielded(last.ret), e) = IF Tracked(e) THEN 1 ELSE 0
        /\ \A i \in 1..Len(last.ret) : AttachedTypes(last.ret[i].entity) # {}

\* the entities a view iteration yielded that many times
YieldedExactly(ret, matches(_)) ==
    \A e \in Entities : Count(Yielded(ret), e) = IF Tracked(e) /\ matches(e) THEN 1 ELSE 0

\* C15: for component types X and Y and any population, iterating a view
\* under X AND Y yields exactly the tracked entities whose signature has both,
\* under X OR Y exactly those whose signature has one of them, under NOT X
\* exactly those whose signature has no X; no view yields an entity without
\* components.
C15_ViewAlgebra ==
    last.op = "iterate" =>
        /\ \A i \in 1..Len(last.ret) : AttachedTypes(last.ret[i].entity) # {}
        /\ \A X, Y \in Types :
              /\ last.view = View(TheStorage, And(TypeFilter(X), TypeFilter(Y))) =>
                    /\ last.err = "none"
                    /\ YieldedExactly(last.ret,
                           LAMBDA e : {X, Y} \subseteq SignatureOf(StorageState, e))
              /\ last.view = View(TheStorage, Or(TypeFilter(X), TypeFilter(Y))) =>
                    /\ last.err = "none"
                    /\ YieldedExactly(last.ret,
                           LAMBDA e : {X, Y} \cap SignatureOf(StorageState, e) # {})
              /\ last.view = View(TheStorage, Not(TypeFilter(X))) =>
                    /\ last.err = "none"
                    /\ YieldedExactly(last.ret,
                           LAMBDA e : X \notin SignatureOf(StorageState, e))

\* C16: for the filter f of a view, the group test and the single test
\* agree (a registered container is in the group result iff the single test
\* accepts its signature), `e in v` holds iff iterating v yields e, and
\* len(v) is the number of tracked entities that match f.
C16_GroupSingleAgree ==
    last.op = "iterate" =>
        LET v == last.view
            group == MatchingContainers(StorageState, v)
        IN /\ \A cid \in Registered :
                 (group.err = "none" /\ cid \in group.set)
                     <=> SingleFilter(v.filter, containers[cid].signature)
           /\ \A e \in Entities :
                 ViewContains(StorageState, v, e) <=> Count(Yielded(last.ret), e) > 0
           /\ ViewLen(StorageState, v).err = "none"
           /\ ViewLen(StorageState, v).len =
                 Cardinality({e \in DOMAIN entity_to_container :
                                 SingleFilter(v.filter, SignatureOf(StorageState, e))})

\* C17: a view built on a view of the storage with filter f, with filter g,
\* is bound to the same storage and yields exactly the tracked entities whose
\* signature satisfies both f and g.
C17_NestedView ==
    \A f, g \in UnaryFilters :
        (last.op = "iterate" /\ last.view = View(View(TheStorage, f), g)) =>
            /\ last.view.storage = TheStorage.storage
            /\ last.err = "none"
            /\ YieldedExactly(last.ret,
                   LAMBDA e : /\ SingleFilter(f, SignatureOf(StorageState, e))
                              /\ SingleFilter(g, SignatureOf(StorageState, e)))

\* the states without the two defects the view claims fail through: the
\* inverted index has a key, and no tracked entity has the empty signature
IndexedPopulation ==
    /\ DOMAIN ctype_to_container # {}
    /\ \A e \in DOMAIN entity_to_container : SignatureOf(StorageState, e) # {}

\* the statement of C15 holds in every state of IndexedPopulation
C15_OnIndexedPopulation == IndexedPopulation => C15_ViewAlgebra

\* the statement of C16 holds in every state of IndexedPopulation
C16_OnIndexedPopulation == IndexedPopulation => C16_GroupSingleAgree

\* the statement of C17 holds in every state of IndexedPopulation
C17_OnIndexedPopulation == IndexedPopulation => C17_NestedView

\* the calls of the buffer that only queue or discard
DeferOps ==
    {"defer_create", "defer_destroy", "defer_set", "defer_delete", "defer_clear",
     "buffer_clear"}

\* C18: defer_create, defer_set, defer_delete, defer_destroy, defer_clear and
\* the buffer's clear leave the tracked entities, the signatures, the
\* component values and the indices of the bound storage unchanged; a step
\* that changes the storage is a flush.
C18_BufferIsolation ==
    [][/\ last'.op \in DeferOps => StorageUnchanged
       /\ ~StorageUnchanged => last'.op = "flush"]_vars

\* a destroy of a tracked entity has been queued behind another command and
\* the entity is still tracked
C18_Witness ==
    /\ last.op = "defer_destroy"
    /\ Tracked(last.entity)
    /\ Len(commands) = 2
    /\ commands[2].method = "destroy"

\* the same calls issued directly on the storage, in the order of the queue:
\* the state after the last call, or after the call that raised
RECURSIVE DirectCalls(_, _)
DirectCalls(S, queue) ==
    IF Len(queue) = 0 THEN [S |-> S, err |-> "none"]
    ELSE LET before == DirectCalls(S, SubSeq(queue, 1, Len(queue) - 1))
         IN IF before.err # "none" THEN before
            ELSE ApplyCall(before.S, queue[Len(queue)])

\* C19: the storage after a flush is the storage the queued operations
\* (create, set, delete, destroy, clear) leave when they are issued directly
\* on it in the same order.
C19_BufferEquivalence ==
    [][last'.op = "flush" => StorageState' = DirectCalls(StorageState, commands).S]_vars

\* C20: a flush of operations that are valid when issued in order applies
\* each of them once, in enqueue order, and returns with the queue empty, so
\* that a flush right after it changes nothing.
C20_FlushOnceInOrder ==
    [][(last'.op = "flush" /\ DirectCalls(StorageState, commands).err = "none") =>
          /\ last'.err = "none"
          /\ StorageState' = DirectCalls(StorageState, commands).S
          /\ commands' = <<>>
          /\ FlushLoop(StorageState', commands', 1).S = StorageState'
      ]_vars

\* no queued command is a clear
NoQueuedClear == \A i \in 1..Len(commands) : commands[i].method # "clear"

\* the statement of C19 holds for every flush of a queue without a clear
C19_WithoutClear ==
    [][(last'.op = "flush" /\ NoQueuedClear) =>
          StorageState' = DirectCalls(StorageState, commands).S]_vars

\* the statement of C20 holds for every flush of a queue without a clear
C20_WithoutClear ==
    [][(/\ last'.op = "flush"
        /\ NoQueuedClear
        /\ DirectCalls(StorageState, commands).err = "none") =>
          /\ last'.err = "none"
          /\ StorageState' = DirectCalls(StorageState, commands).S
          /\ commands' = <<>>
          /\ FlushLoop(StorageState', commands', 1).S = StorageState'
      ]_vars

\* the queued commands before position i, and what issuing them directly in
\* order leaves
Prefix(queue, i) == SubSeq(queue, 1, i - 1)

\* flush reaches position i of the queue: the commands before it are tuples
\* it can unpack and calls that raise nothing
Reaches(S, queue, i) ==
    /\ \A j \in 1..(i - 1) : queue[j].len = 2
    /\ DirectCalls(S, Prefix(queue, i)).err = "none"

\* C21: queuing an operation never fails, whatever its arguments; when flush
\* reaches a queued operation that raises an error when called directly, the
\* flush ends with that error, the operations queued before it have been
\* applied and none of the operations queued after it has.
C21_ErrorsAtFlush ==
    [][/\ last'.op \in DeferOps => last'.err = "none"
       /\ last'.op = "flush" =>
             \A i \in 1..Len(commands) :
                 LET before == DirectCalls(StorageState, Prefix(commands, i))
                     call == ApplyCall(before.S, commands[i])
                 IN (/\ Reaches(StorageState, commands, i)
                     /\ commands[i].len = 2
                     /\ call.err # "none") =>
                        /\ last'.err = call.err
                        /\ StorageState' = before.S
      ]_vars

\* a flush of a create followed by a destroy of an untracked entity: the
\* flush ended with EntityError and the entity of the create is tracked
C21_Witness ==
    /\ last.op = "flush"
    /\ last.err = "EntityError"
    /\ Len(commands) = 2
    /\ commands[1].method = "create"
    /\ Tracked(commands[1].entity)
    /\ commands[2].method = "destroy"
    /\ ~Tracked(commands[2].entity)

\* the component dict of a tracked entity, read from its row
ComponentsOf(S, entity) == ContainerComponentDict(S.heap[S.e2c[entity]], entity)

\* C22: defer_create returns the id of the entity that will be created (the
\* id of the create it queued); that id is untracked before the flush, and
\* after a flush whose last command is that create it is tracked with
\* exactly the given components (untracked when none was given).
C22_DeferCreateReturnsId ==
    [][/\ last'.op = "defer_create" =>
             /\ last'.entity = commands'[Len(commands')].entity
             /\ ~(commands'[Len(commands')].entity \in DOMAIN entity_to_container')
       /\ (/\ last'.op = "flush"
           /\ last'.err = "none"
           /\ Len(commands) > 0
           /\ commands[Len(commands)].method = "create") =>
             LET c == commands[Len(commands)]
             IN IF c.component = None
                THEN c.entity \notin DOMAIN entity_to_container'
                ELSE /\ c.entity \in DOMAIN entity_to_container'
                     /\ ComponentsOf(StorageState', c.entity) = ComponentDictOf(c.component)
      ]_vars

\* the statement of C22 without the returned value: the id of a queued
\* create is untracked when it is queued and holds the given components
\* after a flush that ends with that create
C22_QueuedIdCreated ==
    [][/\ last'.op = "defer_create" =>
             ~(commands'[Len(commands')].entity \in DOMAIN entity_to_container')
       /\ (/\ last'.op = "flush"
           /\ last'.err = "none"
           /\ Len(commands) > 0
           /\ commands[Len(commands)].method = "create") =>
             LET c == commands[Len(commands)]
             IN IF c.component = None
                THEN c.entity \notin DOMAIN entity_to_container'
                ELSE /\ c.entity \in DOMAIN entity_to_container'
                     /\ ComponentsOf(StorageState', c.entity) = ComponentDictOf(c.component)
      ]_vars

\* the positions of the queue that hold a clear
QueuedClears == {i \in 1..Len(commands) : commands[i].method = "clear"}

\* C23: a flush of a queue that holds a clear, and whose operations are
\* valid when issued in order, replays the clear like the other operations:
\* the flush ends without error, the storage is the one the direct calls
\* leave (the operations behind the clear applied to the emptied storage),
\* and when the clear is the last operation no entity is tracked and the
\* three indices are empty.
C23_ClearReplayed ==
    [][(/\ last'.op = "flush"
        /\ QueuedClears # {}
        /\ DirectCalls(StorageState, commands).err = "none") =>
          /\ last'.err = "none"
          /\ StorageState' = DirectCalls(StorageState, commands).S
          /\ Len(commands) \in QueuedClears =>
                /\ entity_to_container' = EmptyDict
                /\ ctype_to_container' = EmptyDict
                /\ signature_to_container' = EmptyDict
      ]_vars

\* C24: the operations queued inside a `with buffer:` block are not visible
\* in the storage inside the block (no step inside it changes the storage),
\* and when the block is left all of them, valid when issued in order, are
\* applied: the storage is the one the direct calls leave.
C24_ContextManager ==
    [][/\ (inside /\ inside') => StorageUnchanged
       /\ (last'.op = "exit" /\ DirectCalls(StorageState, commands).err = "none") =>
             /\ ~inside'
             /\ last'.err = "none"
             /\ StorageState' = DirectCalls(StorageState, commands).S
      ]_vars

\* the statement of C24 holds for every block that queues no clear
C24_WithoutClear ==
    [][/\ (inside /\ inside') => StorageUnchanged
       /\ (/\ last'.op = "exit"
           /\ NoQueuedClear
           /\ DirectCalls(StorageState, commands).err = "none") =>
             /\ ~inside'
             /\ last'.err = "none"
             /\ StorageState' = DirectCalls(StorageState, commands).S
      ]_vars

\* ------------------------------------------------ sequences and mutation
\* the entities a sequence is about: those whose signature, when the body of
\* the generator began, had every requested type (select) or passed the
\* filter's test of one signature (iteration of a view)
MatchedAtStart(g) ==
    {e \in DOMAIN g.start.e2c :
        LET signature == g.start.heap[g.start.e2c[e]].signature
        IN IF g.kind = "select"
           THEN \A k \in 1..Len(g.types.items) : g.types.items[k] \in signature
           ELSE SingleFilter(g.view.filter, signature)}

\* the row a sequence owes an entity: its components when the body began
RowAtStart(g, e) ==
    [entity |-> e,
     components |-> IF g.kind = "select"
                    THEN [k \in 1..Len(g.types.items) |->
                             ComponentsOf(g.start, e)[g.types.items[k]]]
                    ELSE <<>>]

Ended(g) == g.kind # "none" /\ ~Running(g)

\* the generator ended normally having yielded exactly the rows owed
YieldedStart(g) ==
    /\ g.status = "done"
    /\ \A e \in MatchedAtStart(g) :
          Cardinality({k \in 1..Len(g.ret) : g.ret[k].entity = e}) = 1
    /\ \A k \in 1..Len(g.ret) :
          /\ g.ret[k].entity \in MatchedAtStart(g)
          /\ g.ret[k] = RowAtStart(g, g.ret[k].entity)

\* the outcomes of the same sequence consumed at once in the state S
AtOnce(S, g) ==
    IF g.kind = "select"
    THEN IF DOMAIN S.c2c = {} THEN {SelectBody(S, <<>>, g.types)}
         ELSE {SelectBody(S, order, g.types) : order \in Orders(UnionOfIndex(S))}
    ELSE LET m == MatchingContainers(S, g.view)
         IN {[err |-> m.err, ret |-> IterLoop(S.heap, order, 1)] : order \in Orders(m.set)}

\* C25: while a select or view sequence is consumed and the client only
\* queues mutations in a command buffer, the storage stays as it was when
\* the iteration began, and the sequence, once consumed, has yielded each
\* entity that matched at the start exactly once, with its value at the
\* start.  (Stated for storages that held a container when the iteration
\* began.)
C25_DeferredLeavesSequence ==
    /\ generator.status = "active" => StorageState = generator.start
    /\ (Ended(generator) /\ DOMAIN generator.start.c2c # {}) => YieldedStart(generator)

\* C25, the part that holds: queuing does not affect the sequence.  The
\* storage is untouched while the sequence is consumed, and what the sequence
\* has yielded when it ends (or the error that ends it) is what consuming it
\* at once would have given in the state at the start.
C25_SequenceUnaffected ==
    /\ generator.status = "active" => StorageState = generator.start
    /\ Ended(generator) =>
          \E r \in AtOnce(generator.start, generator) :
              /\ r.ret = generator.ret
              /\ r.err = (IF generator.status = "done" THEN "none" ELSE generator.status)

\* a sequence over two matching entities was consumed to its end while a
\* destroy and a set of the yielded entities were queued after the first row
C25_QueuedWhileConsumed ==
    /\ generator.status = "done"
    /\ Len(generator.ret) = 2
    /\ Len(commands) = 2
    /\ commands[1].method = "destroy"
    /\ commands[1].entity = generator.ret[1].entity
    /\ commands[2].method = "set"
    /\ commands[2].entity = generator.ret[2].entity
    /\ StorageState = generator.start

\* the last call was a direct structural mutation (a destroy, or a set that
\* migrated: both free a row by swap-remove) made while the sequence had
\* yielded a row and had not ended
MutatedInFlight ==
    /\ generator.status = "active"
    /\ Len(generator.ret) > 0
    /\ last.op \in {"destroy", "set"}
    /\ last.err = "none"
    /\ last.row >= 0

\* C26 as stated: after a direct structural mutation made while a select or
\* view sequence is partially consumed, some container breaks the
\* swap-remove invariants (a column not as long as the entity list, or
\* entities[index[e]] # e).
C26_MutationCorrupts ==
    MutatedInFlight => \E cid \in DOMAIN containers : ~ContainerDense(containers[cid])

\* C26, amended: direct calls made while a sequence is partially consumed
\* leave the swap-remove invariants of every container intact, the
\* containers the storage has registered and those the sequence still
\* iterates; what they disturb is the sequence.
C26_ContainersStayDense ==
    \A cid \in DOMAIN containers : ContainerDense(containers[cid])

\* a select sequence ended normally without the row of an entity that has
\* matched, with the same value, from the start of the iteration on: the
\* destroy of the entity yielded first moved it into the row the iterator
\* had passed
C26_Witness ==
    /\ generator.kind = "select"
    /\ generator.status = "done"
    /\ Len(generator.ret) = 1
    /\ last.op = "next"
    /\ ~Tracked(generator.ret[1].entity)
    /\ \E e \in MatchedAtStart(generator) :
          /\ e # generator.ret[1].entity
          /\ Tracked(e)
          /\ ComponentsOf(StorageState, e) = ComponentsOf(generator.start, e)
          /\ ContainerDense(containers[entity_to_container[e]])

\* ------------------------------------------------------- create and ids
\* the arguments that pass no component: no argument at all, and an
\* iterable of no component
NoComponents == {component \in ComponentArgs : Len(component.items) = 0}

\* none of the three indices, and no container, knows the entity
Absent(S, entity) ==
    /\ entity \notin DOMAIN S.e2c
    /\ \A cid \in DOMAIN S.heap : entity \notin Listed(S.heap[cid])

\* C27: create never fails, and a create that is passed no component
\* returns an id and leaves the storage unchanged: a minted id is in none of
\* the indices.
C27_CreateWithoutComponents ==
    [][/\ last'.op \in {"create", "create_id"} => last'.err = "none"
       /\ \A component \in NoComponents :
             /\ Create(Entities, component) =>
                   /\ StorageUnchanged
                   /\ last'.entity \in Entities
                   /\ Absent(StorageState', last'.entity)
             /\ (\E entity_id \in minted : CreateWithId(component, entity_id)) =>
                   StorageUnchanged
      ]_vars

\* C27 holds of create called with no component argument (component=None)
C27_CreateNone ==
    [][/\ last'.op \in {"create", "create_id"} => last'.err = "none"
       /\ Create(Entities, None) =>
             /\ StorageUnchanged
             /\ last'.entity \in Entities
             /\ Absent(StorageState', last'.entity)
       /\ (\E entity_id \in minted : CreateWithId(None, entity_id)) => StorageUnchanged
      ]_vars

\* ------------------------------------------------------------------ match
\* the component types attached to the entity in the storage: those of the
\* columns of the container that holds its row, none for an untracked entity
CurrentSignature(entity) ==
    IF Tracked(entity) THEN DOMAIN ComponentsOf(StorageState, entity) ELSE {}

\* C29: match(e, f) returns f's test of e's current signature when e is
\* tracked and of the empty signature when it is not, never raises (no
\* EntityError for an untracked e), and leaves the storage unchanged.
C29_Match ==
    [][last'.op = "match" =>
          /\ last'.err = "none"
          /\ last'.ret = <<SingleFilter(last'.view.filter, CurrentSignature(last'.entity))>>
          /\ (~Tracked(last'.entity)) =>
                last'.ret = <<SingleFilter(last'.view.filter, {})>>
          /\ StorageUnchanged
      ]_vars

\* match of an untracked entity under NOT A answered True while an entity
\* with A is tracked
C29_Witness ==
    /\ last.op = "match"
    /\ ~Tracked(last.entity)
    /\ last.view.filter = Not(TypeFilter("A"))
    /\ last.ret = <<TRUE>>
    /\ \E e \in Entities : Tracked(e) /\ "A" \in SignatureOf(StorageState, e)

\* ------------------------------------------------------------ in-place set
\* C30: a set whose types are all in the entity's signature updates in
\* place: the three indices are unchanged, no container is created or
\* removed, every other container is untouched, the entity's container keeps
\* its entity list and its index (the entity stays at its row), and of its
\* columns only the cells of the supplied types at the entity's row change,
\* to a supplied value.
C30_InPlaceSet ==
    [][(/\ last'.op = "set"
        /\ Tracked(last'.entity)
        /\ TypesOf(last'.arg) \subseteq SignatureOf(StorageState, last'.entity)) =>
          LET e == last'.entity
              cid == entity_to_container[e]
              before == containers[cid]
              after == containers'[cid]
              row == before.indices[e] + 1
          IN /\ last'.err = "none"
             /\ UNCHANGED <<entity_to_container, ctype_to_container, signature_to_container>>
             /\ DOMAIN containers' = DOMAIN containers
             /\ \A d \in DOMAIN containers \ {cid} : containers'[d] = containers[d]
             /\ after.signature = before.signature
             /\ after.entities = before.entities
             /\ after.indices = before.indices
             /\ DOMAIN after.components = DOMAIN before.components
             /\ \A t \in DOMAIN before.components :
                   /\ Len(after.components[t]) = Len(before.components[t])
                   /\ \A i \in 1..Len(before.components[t]) :
                         IF t \in TypesOf(last'.arg) /\ i = row
                         THEN after.components[t][i] \in Supplied(last'.arg, t)
                         ELSE after.components[t][i] = before.components[t][i]
      ]_vars

\* a set of A on the entity at the first of two rows of the {A} container
\* (a set that migrates appends the entity's row at the end) wrote the first
\* cell of the column and left the second
C30_Witness ==
    /\ last.op = "set" /\ last.err = "none"
    /\ last.arg = Single(Component("A", 2))
    /\ Tracked(last.entity)
    /\ LET c == containers[entity_to_container[last.entity]]
       IN /\ c.signature = {"A"}
          /\ Len(c.entities) = 2
          /\ c.indices[last.entity] = 0
          /\ c.entities[2] # last.entity
          /\ c.components["A"] = <<2, 1>>

\* ------------------------------------------------------------ swap-remove
\* the step called _Container.remove for the entity of the call: a destroy
\* that succeeded, or a set on a tracked entity that supplied a type its
\* signature lacks (_update_entity then removes the entity from its
\* container before adding it to the one of the united signature)
RemovesRow ==
    \/ last'.op = "destroy" /\ last'.err = "none"
    \/ /\ last'.op = "set"
       /\ Tracked(last'.entity)
       /\ ~(TypesOf(last'.arg) \subseteq SignatureOf(StorageState, last'.entity))

LastSupplied(component, t) ==
    LET at == {j \in 1..Len(component.items) : component.items[j].type = t}
    IN component.items[CHOOSE j \in at : \A k \in at : k <= j].val

\* the rows of the entity, over all containers
RowsOf(S, entity) ==
    {p \in UNION {{<<cid, k>> : k \in 1..Len(S.heap[cid].entities)} : cid \in DOMAIN S.heap} :
        S.heap[p[1]].entities[p[2]] = entity}

Lacking(g) ==
    {cid \in g.source :
        \E k \in 1..Len(g.types.items) :
            g.types.items[k] \notin g.start.heap[cid].signature}

\* what View.select promises of the generator g: it raises nothing but
\* ComponentError, and that only for a container the view matched that lacks
\* a requested type; it does not end normally when there is such a
\* container; when it raises, it has yielded every row of the containers it
\* visited before (the sequence is lazy); and after each next() the storage
\* is as it was when the body began.  Stated for storages that held a
\* container then.
ViewSelectContract(g) ==
    (g.status \notin {"none", "new"} /\ DOMAIN g.start.c2c # {}) =>
        /\ g.status \in {"active", "done", "ComponentError"}
        /\ g.status = "ComponentError" =>
              /\ g.visited \cap Lacking(g) # {}
              /\ Cardinality(g.visited \cap Lacking(g)) = 1
              /\ Len(g.ret) = SumLen(g.start.heap, g.visited \ Lacking(g))
        /\ g.status = "done" => Lacking(g) = {}
        /\ last.op = "next" => StorageState = g.start

\* C34: View.select(T) raises ComponentError when a container the view's
\* filter matches lacks T, only when the iteration reaches that container,
\* after the rows of the matching containers before it were yielded, and
\* leaves the storage unchanged.
C34_ViewSelectError ==
    generator.kind \in {"view_select", "package_view_select"} => ViewSelectContract(generator)

\* C34 holds of the View of yaecs/view.py
C34_ModuleViewSelect ==
    generator.kind = "view_select" => ViewSelectContract(generator)

\* View(A).select(B) of yaecs/view.py yielded the row of the {A, B} entity
\* and then raised ComponentError at the {A} container
C34_RowsBeforeError ==
    /\ generator.kind = "view_select"
    /\ generator.view = View(TheStorage, TypeFilter("A"))
    /\ generator.types = Single("B")
    /\ generator.status = "ComponentError"
    /\ Len(generator.ret) = 1
    /\ Cardinality(generator.visited) = 2

\* ------------------------------------------------------- one row per entity
\* the rows of the entity in the containers the storage has registered
RegisteredRowsOf(entity) ==
    {p \in RowsOf(StorageState, entity) : p[1] \in Registered}

\* C35: after any sequence of public calls, create with a tracked entity_id
\* included, every tracked entity occupies exactly one row of one registered
\* container, no untracked entity occupies a row, and len(Storage) is the
\* sum of the lengths of the registered containers.
C35_OneRowEach ==
    /\ \A e \in Entities :
          Cardinality(RegisteredRowsOf(e)) = (IF Tracked(e) THEN 1 ELSE 0)
    /\ StorageLen = SumLen(containers, Registered)


\* ------------------------------------------------- the queue after a failure
\* flush fails at position i of the queue: it reaches the position and the
\* queued tuple does not unpack or its call raises
FailsAt(S, queue, i) ==
    /\ Reaches(S, queue, i)
    /\ \/ queue[i].len # 2
       \/ ApplyCall(DirectCalls(S, Prefix(queue, i)).S, queue[i]).err # "none"

\* C36: when an operation fails during flush, the operations applied before
\* it are removed from the queue: what the queue holds afterwards is a part
\* of the old queue that starts at the failed operation or after it, so
\* that a later flush applies none of them a second time.
C36_AppliedLeaveQueue ==
    [][last'.op = "flush" =>
          \A i \in 1..Len(commands) :
              FailsAt(StorageState, commands, i) =>
                  \E j \in i..(Len(commands) + 1) :
                      commands' = SubSeq(commands, j, Len(commands))
      ]_vars

\* a flush that failed at its second operation kept the first in the queue:
\* the create it applied is still queued and its entity is tracked
C36_AppliedStillQueued ==
    /\ last.op = "flush"
    /\ last.err = "EntityError"
    /\ Len(commands) = 2
    /\ commands[1].method = "create"
    /\ commands[1].component # None
    /\ Tracked(commands[1].entity)


\* ------------------------------------------------- queries of an empty storage
\* C37: on a storage that tracks no entity, Storage.select returns an empty
\* sequence without error, and a view over any filter, one with NOT
\* included, iterates to nothing, has length 0 and is falsy, without error.
C37_EmptyStorageQueries ==
    (DOMAIN entity_to_container = {}) =>
        /\ last.op \in {"select", "iterate"} =>
              (last.err = "none" /\ last.ret = <<>>)
        /\ \A view \in Views :
              /\ ViewLen(StorageState, view) = [err |-> "none", len |-> 0]
              /\ ViewBool(StorageState, view) = [err |-> "none", bool |-> FALSE]

\* C37 holds of the views whose filter has no NOT: on a storage that tracks
\* no entity they iterate to nothing, have length 0 and are falsy
C37_ViewsWithoutNot ==
    (DOMAIN entity_to_container = {}) =>
        \A f \in SimpleFilters \ {Not(g) : g \in AtomFilters} :
            LET view == View(TheStorage, f)
            IN /\ (last.op = "iterate" /\ last.view = view) =>
                     (last.err = "none" /\ last.ret = <<>>)
               /\ ViewLen(StorageState, view) = [err |-> "none", len |-> 0]
               /\ ViewBool(StorageState, view) = [err |-> "none", bool |-> FALSE]


\* --------------------------------------------------------------- the reads
\* the calls that only read the storage
ReadOps ==
    {"components", "signature", "get", "match", "select", "iterate",
     "len", "bool", "contains"}

\* C38: components, signature, get, match, select, and the iteration, len,
\* membership test and truth value of a view over any filter built with
\* AND, OR and NOT leave entity_to_container, the inverted index with its
\* member sets and every container unchanged, whether they succeed or raise.
C38_ReadsChangeNothing ==
    [][last'.op \in ReadOps => StorageState' = StorageState]_vars

\* a read that raises: len of a view under NOT A raised TypeError on a
\* storage that tracks entity 1 and has an empty inverted index
C38_Witness ==
    /\ last.op = "len"
    /\ last.view = View(TheStorage, Not(TypeFilter("A")))
    /\ last.err = "TypeError"
    /\ Tracked(1)

\* a len of a view under A AND B succeeded on a storage that holds rows
C38_WitnessSuccess ==
    /\ last.op = "len"
    /\ last.view = View(TheStorage, And(TypeFilter("A"), TypeFilter("B")))
    /\ last.err = "none"
    /\ last.ret = <<1>>
    /\ StorageLen = 2


\* ------------------------------------------- the Storage of yaecs/__init__.py
\* Storage._update_entity of the package: as that of storage.py when the
\* signature does not change; otherwise it calls self._remove_entity(entity)
\* with one argument for the two parameters container and entity, which
\* raises TypeError before anything is written
PackageUpdateEntity(S, cid, entity, component_dict) ==
    LET signature == S.heap[cid].signature
    IN IF DOMAIN component_dict \subseteq signature
       THEN [S |-> [S EXCEPT !.heap = [S.heap EXCEPT ![cid] =
                        ContainerUpdate(S.heap[cid], entity, component_dict)]],
             err |-> "none"]
       ELSE [S |-> S, err |-> "TypeError"]

\* a call of create, destroy or set of the package's Storage on the state S:
\* create and destroy are the code of storage.py, set ends in the package's
\* _update_entity
PackageApplyCall(S, c) ==
    IF c.method = "set" /\ c.entity \in DOMAIN S.e2c
    THEN LET r == PackageUpdateEntity(S, S.e2c[c.entity], c.entity,
                                      ComponentDictOf(c.component))
         IN [S |-> Collect(r.S), err |-> r.err]
    ELSE ApplyCall(S, c)

\* the calls of create, destroy and set a client makes
StorageCalls ==
    {Command("create", entity, component, None, 2) :
        entity \in Entities \ minted, component \in ComponentArgs}
    \cup {Command("destroy", entity, None, None, 2) : entity \in Entities}
    \cup {Command("set", entity, component, None, 2) :
            entity \in Entities, component \in ComponentArgs \ {None}}

\* the call is a set that gives a tracked entity a type it does not have
AddsType(S, c) ==
    /\ c.method = "set"
    /\ c.entity \in DOMAIN S.e2c
    /\ ~(TypesOf(c.component) \subseteq SignatureOf(S, c.entity))

\* C39: the Storage of yaecs/__init__.py and the Storage of yaecs/storage.py
\* are equivalent on create, set, destroy, components, signature and get:
\* from the same state every call raises the same error and leaves the same
\* state, so that every sequence of calls gives the same results; in
\* particular a set that adds a component type to a tracked entity.
C39_PackageEquivalent ==
    \A c \in StorageCalls :
        PackageApplyCall(StorageState, c) = ApplyCall(StorageState, c)

\* the two classes agree on every call that is not a set adding a type
C39_EquivalentElsewhere ==
    \A c \in StorageCalls :
        ~AddsType(StorageState, c) =>
            PackageApplyCall(StorageState, c) = ApplyCall(StorageState, c)

=============================================================================
